---- MODULE Spec2Model ----
(***************************************************************************)
(* excel-search-mcp: the directory access policy (ConfigManager), the file *)
(* validator and parser front ends (ExcelProcessor), the directory scanner *)
(* (FileScanner) and the tool dispatcher (server.call_tool), over a small  *)
(* filesystem that an external actor changes between the steps of a call.  *)
(***************************************************************************)
EXTENDS Integers, Sequences, FiniteSets, TLC

VARIABLES fs, config, pc, cur, resp, log

vars == <<fs, config, pc, cur, resp, log>>

-----------------------------------------------------------------------------
(* Bounds and program constants *)

\* symbolic links followed while resolving one path
MaxLinkHops == 2

\* ConfigManager.get_max_file_size_mb default
DefaultMaxFileSizeMb == 100

\* ConfigManager.get_max_files_per_search default
DefaultMaxFiles == 1000

\* file sizes in megabytes: below and above the ceiling
Sizes == {1, 200}

-----------------------------------------------------------------------------
(* Paths: a path is a sequence of segments below "/" *)

Front(s) == SubSeq(s, 1, Len(s) - 1)

Last(s) == s[Len(s)]

IsPrefix(r, p) == Len(r) <= Len(p) /\ SubSeq(p, 1, Len(r)) = r

WorkP == <<"work">>
AFile == <<"work", "A.XLSX">>
NTxt == <<"work", "n.txt">>
SubDir == <<"work", "sub">>
LnkFile == <<"work", "sub", "lnk.xlsx">>
Work2P == <<"work2">>
CFile == <<"work2", "c.xlsx">>
OutP == <<"out">>
SFile == <<"out", "s.xlsx">>
LockedP == <<"locked">>
LockedFile == <<"locked", "x.xlsx">>

\* every location of the filesystem that can hold a node
Locs == {<<>>, WorkP, AFile, NTxt, SubDir, LnkFile, Work2P, CFile, OutP, SFile, LockedP}

NoNode == [kind |-> "none", size |-> 0, target |-> <<>>]
DirNode == [kind |-> "dir", size |-> 0, target |-> <<>>]
FileNode(sz) == [kind |-> "file", size |-> sz, target |-> <<>>]
LinkNode(t) == [kind |-> "link", size |-> 0, target |-> t]

\* a directory the server has no permission to search
LockedNode == [kind |-> "locked", size |-> 0, target |-> <<>>]

\* the filesystem the server starts on
InitialFs ==
    [l \in Locs |->
        CASE l \in {<<>>, WorkP, SubDir, Work2P, OutP} -> DirNode
          [] l \in {AFile, NTxt, CFile, SFile} -> FileNode(1)
          [] l = LnkFile -> LinkNode(SFile)
          [] l = LockedP -> LockedNode
          [] OTHER -> NoNode]

\* the node at a location, without following a link there
NodeAt(f, l) == IF l \in DOMAIN f THEN f[l] ELSE NoNode

\* suffix of the final path segment (PurePath.suffix)
suffix(p) ==
    IF p = <<>> THEN ""
    ELSE CASE Last(p) \in {"lnk.xlsx", "c.xlsx", "s.xlsx", "missing.xlsx", "x.xlsx"} -> ".xlsx"
           [] Last(p) = "A.XLSX" -> ".XLSX"
           [] Last(p) = "n.txt" -> ".txt"
           [] OTHER -> ""

\* str.lower on a suffix
lower(s) == IF s = ".XLSX" THEN ".xlsx" ELSE s

RECURSIVE resolve_from(_, _, _, _)
\* os.path.realpath: walk the segments, collapse "..", follow links
resolve_from(f, at, segs, hops) ==
    IF segs = <<>> THEN at
    ELSE LET s == Head(segs)
             rest == Tail(segs)
         IN  IF s = ".."
             THEN resolve_from(f, IF at = <<>> THEN at ELSE Front(at), rest, hops)
             ELSE LET cand == Append(at, s)
                  IN  IF NodeAt(f, cand).kind = "link" /\ hops > 0
                      THEN resolve_from(f, <<>>, NodeAt(f, cand).target \o rest, hops - 1)
                      ELSE resolve_from(f, cand, rest, hops)

\* a resolution that collapses ".." but leaves links in place (Path.absolute)
resolve_nolinks(f, p) == resolve_from(f, <<>>, p, 0)

\* Path(path).resolve()
resolve(f, p) == resolve_from(f, <<>>, p, MaxLinkHops)

\* Path.exists / is_file / is_dir: all follow links
exists(f, p) == NodeAt(f, resolve(f, p)).kind \in {"file", "dir", "locked"}

is_file(f, p) == NodeAt(f, resolve(f, p)).kind = "file"

is_dir(f, p) == NodeAt(f, resolve(f, p)).kind \in {"dir", "locked"}

\* the exception os.stat raises for p, "" for none: PermissionError below a
\* directory that may not be searched. Path.exists, is_file and is_dir let
\* it through; a missing file they answer with False.
stat_error(f, p) ==
    IF \E k \in 1 .. (Len(resolve(f, p)) - 1) :
          NodeAt(f, SubSeq(resolve(f, p), 1, k)).kind = "locked"
    THEN "PermissionError" ELSE ""

\* Path.stat().st_size of an existing path, in megabytes
st_size(f, p) == NodeAt(f, resolve(f, p)).size

-----------------------------------------------------------------------------
(* ConfigManager *)

WorkDirs == {WorkP, <<"out", "..", "work">>}

Extensions == {".xlsx", ".xls", ".xlsm", ".xlsb"}

\* the scan settings of a configuration file
ScanModes == {[rec |-> TRUE, max |-> 1], [rec |-> FALSE, max |-> DefaultMaxFiles]}

\* the configurations a server is started with
Configs ==
    {[work_directory |-> w,
      supported_extensions |-> Extensions,
      max_file_size_mb |-> DefaultMaxFileSizeMb,
      max_files_per_search |-> m.max,
      recursive_search |-> m.rec] : w \in WorkDirs, m \in ScanModes}

get_work_directory(c) == c.work_directory

get_supported_extensions(c) == c.supported_extensions

get_max_file_size_mb(c) == c.max_file_size_mb

get_max_files_per_search(c) == c.max_files_per_search

get_recursive_search(c) == c.recursive_search

\* Path.relative_to succeeds: whole leading segments agree
relative_to(target, base) == IsPrefix(base, target)

\* ConfigManager.is_path_within_work_directory
is_path_within_work_directory(f, c, p) ==
    LET target_path == resolve(f, p)
        work_dir == resolve(f, get_work_directory(c))
    IN  IF target_path = work_dir THEN TRUE
        ELSE relative_to(target_path, work_dir)

-----------------------------------------------------------------------------
(* ExcelProcessor: file validation *)

\* one filesystem access of a call: what was done, on which path, and where
\* that path led at that moment
Ev(kind, f, p) == [ev |-> kind, path |-> p, real |-> resolve(f, p)]

\* ExcelProcessor.is_supported_file
is_supported_file(c, p) == lower(suffix(p)) \in get_supported_extensions(c)

\* the size check placed before the policy check
validate_file_path_size_first(f, c, p) ==
    IF ~exists(f, p)
    THEN [result |-> [valid |-> FALSE,
                      error |-> [msg |-> "File does not exist", path |-> p],
                      error_code |-> "FILE_NOT_FOUND"],
          trace |-> <<Ev("exists", f, p)>>]
    ELSE IF ~is_file(f, p)
    THEN [result |-> [valid |-> FALSE,
                      error |-> [msg |-> "Path is not a file", path |-> p],
                      error_code |-> "NOT_A_FILE"],
          trace |-> <<Ev("exists", f, p), Ev("is_file", f, p)>>]
    ELSE IF st_size(f, p) > get_max_file_size_mb(c)
    THEN [result |-> [valid |-> FALSE,
                      error |-> [msg |-> "File too large", size |-> st_size(f, p),
                                 max |-> get_max_file_size_mb(c)],
                      error_code |-> "FILE_TOO_LARGE",
                      file_size_mb |-> st_size(f, p),
                      max_size_mb |-> get_max_file_size_mb(c)],
          trace |-> <<Ev("exists", f, p), Ev("is_file", f, p), Ev("stat", f, p)>>]
    ELSE IF ~is_path_within_work_directory(f, c, p)
    THEN [result |-> [valid |-> FALSE,
                      error |-> [msg |-> "File access denied", path |-> p,
                                 work |-> get_work_directory(c)],
                      error_code |-> "ACCESS_DENIED",
                      work_directory |-> get_work_directory(c)],
          trace |-> <<Ev("exists", f, p), Ev("is_file", f, p), Ev("stat", f, p),
                      Ev("policy", f, p)>>]
    ELSE [result |-> [valid |-> TRUE, file_path |-> resolve(f, p), allowed |-> TRUE,
                      file_size_mb |-> st_size(f, p)],
          trace |-> <<Ev("exists", f, p), Ev("is_file", f, p), Ev("stat", f, p),
                      Ev("policy", f, p)>>]

\* a validation that takes a path it may not stat for a missing one
validate_file_path_unguarded(f, c, p) ==
    IF ~exists(f, p)
    THEN [result |-> [valid |-> FALSE,
                      error |-> [msg |-> "File does not exist", path |-> p],
                      error_code |-> "FILE_NOT_FOUND"],
          trace |-> <<Ev("exists", f, p)>>]
    ELSE IF ~is_file(f, p)
    THEN [result |-> [valid |-> FALSE,
                      error |-> [msg |-> "Path is not a file", path |-> p],
                      error_code |-> "NOT_A_FILE"],
          trace |-> <<Ev("exists", f, p), Ev("is_file", f, p)>>]
    ELSE IF ~is_path_within_work_directory(f, c, p)
    THEN [result |-> [valid |-> FALSE,
                      error |-> [msg |-> "File access denied", path |-> p,
                                 work |-> get_work_directory(c)],
                      error_code |-> "ACCESS_DENIED",
                      work_directory |-> get_work_directory(c)],
          trace |-> <<Ev("exists", f, p), Ev("is_file", f, p), Ev("policy", f, p)>>]
    ELSE IF st_size(f, p) > get_max_file_size_mb(c)
    THEN [result |-> [valid |-> FALSE,
                      error |-> [msg |-> "File too large", size |-> st_size(f, p),
                                 max |-> get_max_file_size_mb(c)],
                      error_code |-> "FILE_TOO_LARGE",
                      file_size_mb |-> st_size(f, p),
                      max_size_mb |-> get_max_file_size_mb(c)],
          trace |-> <<Ev("exists", f, p), Ev("is_file", f, p), Ev("policy", f, p),
                      Ev("stat", f, p)>>]
    ELSE [result |-> [valid |-> TRUE, file_path |-> resolve(f, p), allowed |-> TRUE,
                      file_size_mb |-> st_size(f, p)],
          trace |-> <<Ev("exists", f, p), Ev("is_file", f, p), Ev("policy", f, p),
                      Ev("stat", f, p)>>]

\* ExcelProcessor.validate_file_path: the result dictionary and the
\* filesystem accesses made on the way to it
validate_file_path(f, c, p) ==
    IF stat_error(f, p) # ""
    THEN [result |-> [valid |-> FALSE,
                      error |-> [msg |-> "File validation error", exc |-> stat_error(f, p)],
                      error_code |-> "VALIDATION_ERROR"],
          trace |-> <<Ev("exists", f, p)>>]
    ELSE IF ~exists(f, p)
    THEN [result |-> [valid |-> FALSE,
                      error |-> [msg |-> "File does not exist", path |-> p],
                      error_code |-> "FILE_NOT_FOUND"],
          trace |-> <<Ev("exists", f, p)>>]
    ELSE IF ~is_file(f, p)
    THEN [result |-> [valid |-> FALSE,
                      error |-> [msg |-> "Path is not a file", path |-> p],
                      error_code |-> "NOT_A_FILE"],
          trace |-> <<Ev("exists", f, p), Ev("is_file", f, p)>>]
    ELSE IF ~is_path_within_work_directory(f, c, p)
    THEN [result |-> [valid |-> FALSE,
                      error |-> [msg |-> "File access denied", path |-> p,
                                 work |-> get_work_directory(c)],
                      error_code |-> "ACCESS_DENIED",
                      work_directory |-> get_work_directory(c)],
          trace |-> <<Ev("exists", f, p), Ev("is_file", f, p), Ev("policy", f, p)>>]
    ELSE IF st_size(f, p) > get_max_file_size_mb(c)
    THEN [result |-> [valid |-> FALSE,
                      error |-> [msg |-> "File too large", size |-> st_size(f, p),
                                 max |-> get_max_file_size_mb(c)],
                      error_code |-> "FILE_TOO_LARGE",
                      file_size_mb |-> st_size(f, p),
                      max_size_mb |-> get_max_file_size_mb(c)],
          trace |-> <<Ev("exists", f, p), Ev("is_file", f, p), Ev("policy", f, p),
                      Ev("stat", f, p)>>]
    ELSE [result |-> [valid |-> TRUE, file_path |-> resolve(f, p), allowed |-> TRUE,
                      file_size_mb |-> st_size(f, p)],
          trace |-> <<Ev("exists", f, p), Ev("is_file", f, p), Ev("policy", f, p),
                      Ev("stat", f, p)>>]

-----------------------------------------------------------------------------
(* ExcelProcessor: the four file operations *)

\* an open that finds the workbook whether or not the file is still there
open_workbook_unchecked(f, p, good) == IF ~good THEN "InvalidFileException" ELSE "ok"

\* what opening a workbook at p does: the exception raised, or "ok".
\* good says whether the bytes found there parse as a workbook.
open_workbook(f, p, good) ==
    IF ~exists(f, p) THEN "FileNotFoundError"
    ELSE IF ~is_file(f, p) THEN "IsADirectoryError"
    ELSE IF ~good THEN "InvalidFileException"
    ELSE "ok"

Unsupported(c, p) ==
    [success |-> FALSE,
     error |-> [msg |-> "Unsupported file format", suffix |-> suffix(p)],
     supported_formats |-> get_supported_extensions(c)]

\* ExcelProcessor.get_file_info up to the point where the workbook is opened:
\* done with a failure envelope, or going on to open the file
get_file_info_check(f, c, p) ==
    LET validation == validate_file_path(f, c, p)
    IN  IF ~validation.result.valid
        THEN [done |-> TRUE,
              body |-> [success |-> FALSE,
                        error |-> validation.result.error,
                        error_code |-> validation.result.error_code,
                        file_path |-> p,
                        work_directory |->
                            IF "work_directory" \in DOMAIN validation.result
                            THEN validation.result.work_directory ELSE <<>>],
              trace |-> validation.trace]
        ELSE IF ~is_supported_file(c, p)
        THEN [done |-> TRUE, body |-> Unsupported(c, p), trace |-> validation.trace]
        ELSE [done |-> FALSE, body |-> [success |-> TRUE], trace |-> validation.trace]

\* get_file_info: the envelope of the except branch
file_info_failed(p, exc) ==
    [success |-> FALSE,
     error |-> [msg |-> "Cannot get file information", exc |-> exc],
     file_path |-> p]

\* get_file_info: the success envelope, built from the stat taken after parsing
file_info_ok(f, p) ==
    [success |-> TRUE, file_path |-> p, file_name |-> Last(p),
     file_size |-> st_size(f, p), file_format |-> lower(suffix(p))]

\* the parser is called on p; the file is opened when there is one
parse_events(f, p) ==
    IF is_file(f, p) THEN <<Ev("parse", f, p), Ev("open", f, p)>> ELSE <<Ev("parse", f, p)>>

\* ExcelProcessor.get_file_info run in one piece on one filesystem state
get_file_info(f, c, p, good) ==
    LET chk == get_file_info_check(f, c, p)
    IN  IF chk.done THEN [body |-> chk.body, trace |-> chk.trace]
        ELSE IF open_workbook(f, p, good) # "ok"
        THEN [body |-> file_info_failed(p, open_workbook(f, p, good)),
              trace |-> chk.trace \o parse_events(f, p)]
        ELSE [body |-> file_info_ok(f, p),
              trace |-> chk.trace \o parse_events(f, p) \o <<Ev("stat", f, p)>>]

\* read_worksheet_data, get_worksheet_summary and search_in_worksheet up to
\* the point where the file is handed to the parser
parser_front_check(f, c, p) ==
    IF ~is_supported_file(c, p)
    THEN [done |-> TRUE, body |-> Unsupported(c, p), trace |-> <<>>]
    ELSE [done |-> FALSE, body |-> [success |-> TRUE], trace |-> <<>>]

\* the except branches of the three parser front ends
parse_failed(op, p, exc) ==
    [success |-> FALSE,
     error |-> [msg |-> CASE op = "read_excel_data" /\ exc = "FileNotFoundError" -> "File not found"
                          [] op = "read_excel_data" -> "Cannot read data"
                          [] op = "get_worksheet_summary" -> "Cannot get worksheet information"
                          [] OTHER -> "Error occurred during search",
                exc |-> exc],
     file_path |-> p]

\* the success envelopes of the three parser front ends
parse_ok(op, p) == [success |-> TRUE, file_path |-> p]

-----------------------------------------------------------------------------
(* FileScanner *)

\* an extension test that compares the suffix as written
is_excel_file_exact(c, p) == suffix(p) \in get_supported_extensions(c)

\* FileScanner.is_excel_file
is_excel_file(c, p) == lower(suffix(p)) \in get_supported_extensions(c)

\* a directory validation that asks the path policy first
validate_directory_path_policy_first(f, c, d) ==
    IF ~is_path_within_work_directory(f, c, d)
    THEN [result |-> [valid |-> FALSE,
                      error |-> [msg |-> "Directory access denied", path |-> d,
                                 work |-> get_work_directory(c)],
                      error_code |-> "ACCESS_DENIED",
                      work_directory |-> get_work_directory(c)],
          trace |-> <<Ev("policy", f, d)>>]
    ELSE IF ~exists(f, d)
    THEN [result |-> [valid |-> FALSE,
                      error |-> [msg |-> "Directory does not exist", path |-> d],
                      error_code |-> "DIRECTORY_NOT_FOUND"],
          trace |-> <<Ev("policy", f, d), Ev("exists", f, d)>>]
    ELSE IF ~is_dir(f, d)
    THEN [result |-> [valid |-> FALSE,
                      error |-> [msg |-> "Path is not a directory", path |-> d],
                      error_code |-> "NOT_A_DIRECTORY"],
          trace |-> <<Ev("policy", f, d), Ev("exists", f, d), Ev("is_dir", f, d)>>]
    ELSE [result |-> [valid |-> TRUE, directory |-> resolve(f, d), allowed |-> TRUE],
          trace |-> <<Ev("policy", f, d), Ev("exists", f, d), Ev("is_dir", f, d)>>]

\* FileScanner.validate_directory_path: the result dictionary and the
\* filesystem accesses made on the way to it
validate_directory_path(f, c, d) ==
    IF stat_error(f, d) # ""
    THEN [result |-> [valid |-> FALSE,
                      error |-> [msg |-> "Path validation error", exc |-> stat_error(f, d)],
                      error_code |-> "VALIDATION_ERROR"],
          trace |-> <<Ev("exists", f, d)>>]
    ELSE IF ~exists(f, d)
    THEN [result |-> [valid |-> FALSE,
                      error |-> [msg |-> "Directory does not exist", path |-> d],
                      error_code |-> "DIRECTORY_NOT_FOUND"],
          trace |-> <<Ev("exists", f, d)>>]
    ELSE IF ~is_dir(f, d)
    THEN [result |-> [valid |-> FALSE,
                      error |-> [msg |-> "Path is not a directory", path |-> d],
                      error_code |-> "NOT_A_DIRECTORY"],
          trace |-> <<Ev("exists", f, d), Ev("is_dir", f, d)>>]
    ELSE IF ~is_path_within_work_directory(f, c, d)
    THEN [result |-> [valid |-> FALSE,
                      error |-> [msg |-> "Directory access denied", path |-> d,
                                 work |-> get_work_directory(c)],
                      error_code |-> "ACCESS_DENIED",
                      work_directory |-> get_work_directory(c)],
          trace |-> <<Ev("exists", f, d), Ev("is_dir", f, d), Ev("policy", f, d)>>]
    ELSE [result |-> [valid |-> TRUE, directory |-> resolve(f, d), allowed |-> TRUE],
          trace |-> <<Ev("exists", f, d), Ev("is_dir", f, d), Ev("policy", f, d)>>]

\* FileScanner.get_file_metadata on the filesystem as it is when stat is
\* called: the path is made absolute, not resolved; a stat that fails
\* gives an entry with size 0 and the error
get_file_metadata(f, p) ==
    IF ~exists(f, p)
    THEN [file_path |-> p, file_name |-> Last(p), file_size |-> 0,
          extension |-> lower(suffix(p)), error |-> "FileNotFoundError"]
    ELSE [file_path |-> p, file_name |-> Last(p), file_size |-> st_size(f, p),
          extension |-> lower(suffix(p))]

\* a listing of the direct children only, whatever the pattern
below_children(f, d, recursive) ==
    {l \in DOMAIN f : Len(l) = Len(d) + 1 /\ IsPrefix(d, l) /\ f[l].kind # "none"}

\* the locations Path.glob walks below the directory at d: direct children
\* for "*", every descendant for "**/*"; links are listed, not descended
below(f, d, recursive) ==
    {l \in DOMAIN f :
        /\ Len(l) > Len(d)
        /\ IsPrefix(d, l)
        /\ f[l].kind # "none"
        /\ recursive \/ Len(l) = Len(d) + 1
        /\ \A k \in (Len(d) + 1) .. (Len(l) - 1) : f[SubSeq(l, 1, k)].kind = "dir"}

\* fnmatch of one file name against a pattern
name_matches(pattern, name) ==
    CASE pattern = "*" -> TRUE
      [] pattern = "*.xlsx" -> name \in {"lnk.xlsx", "s.xlsx", "c.xlsx", "missing.xlsx"}
      [] OTHER -> FALSE

\* the paths base.glob(pattern) yields, when base is a directory
glob(f, base, pattern, recursive) ==
    IF ~is_dir(f, base) THEN {}
    ELSE {base \o SubSeq(l, Len(resolve(f, base)) + 1, Len(l)) :
            l \in {m \in below(f, resolve(f, base), recursive) :
                     name_matches(pattern, Last(m))}}

RECURSIVE Perms(_)
\* the orders in which the filesystem may list a set of entries
Perms(S) ==
    IF S = {} THEN {<<>>}
    ELSE UNION {{<<x>> \o t : t \in Perms(S \ {x})} : x \in S}

\* the orders in which glob yields a set of entries: a directory's entries
\* in any order, before the entries of the directories below it
listing(S) ==
    {o \in Perms(S) : \A i, j \in 1 .. Len(o) : i < j => Len(o[i]) <= Len(o[j])}

\* max_files = None
NoneCap == -1

RECURSIVE scan_loop_zero_caps(_, _, _, _, _, _, _, _)
\* a loop that takes max_files = 0 for a cap of no files
scan_loop_zero_caps(f, g, c, order, k, max_files, excel_files, scanned_count) ==
    IF k > Len(order)
    THEN [files |-> excel_files, scanned |-> scanned_count, visited |-> order]
    ELSE IF max_files # NoneCap /\ Len(excel_files) >= max_files
    THEN [files |-> excel_files, scanned |-> scanned_count + 1,
          visited |-> SubSeq(order, 1, k)]
    ELSE IF is_file(f, order[k]) /\ is_excel_file(c, order[k])
    THEN scan_loop_zero_caps(f, g, c, order, k + 1, max_files,
                             Append(excel_files, get_file_metadata(g, order[k])),
                             scanned_count + 1)
    ELSE scan_loop_zero_caps(f, g, c, order, k + 1, max_files, excel_files,
                             scanned_count + 1)

RECURSIVE scan_loop(_, _, _, _, _, _, _, _)
\* the for loop of scan_directory from entry k of the listing on. f is the
\* filesystem the entries are tested on, g the filesystem as it is when
\* the metadata of a match is collected; a max_files of None or 0 is no cap
scan_loop(f, g, c, order, k, max_files, excel_files, scanned_count) ==
    IF k > Len(order)
    THEN [files |-> excel_files, scanned |-> scanned_count, visited |-> order]
    ELSE IF max_files \notin {NoneCap, 0} /\ Len(excel_files) >= max_files
    THEN [files |-> excel_files, scanned |-> scanned_count + 1,
          visited |-> SubSeq(order, 1, k)]
    ELSE IF is_file(f, order[k]) /\ is_excel_file(c, order[k])
    THEN scan_loop(f, g, c, order, k + 1, max_files,
                   Append(excel_files, get_file_metadata(g, order[k])), scanned_count + 1)
    ELSE scan_loop(f, g, c, order, k + 1, max_files, excel_files, scanned_count + 1)

\* the entries a listing walked, as filesystem accesses
visits(f, visited) == [k \in 1 .. Len(visited) |-> Ev("visit", f, visited[k])]

\* scan_directory with the listing walked before the directory check
scan_directory_check_last(f, g, c, d, recursive, max_files, order) ==
    LET validation == validate_directory_path(f, c, d)
        r == scan_loop(f, g, c, order, 1, max_files, <<>>, 0)
    IN  IF ~validation.result.valid
        THEN [body |-> [success |-> FALSE,
                        error |-> validation.result.error,
                        error_code |-> validation.result.error_code,
                        directory |-> d, recursive |-> recursive,
                        total_files |-> 0, files |-> <<>>,
                        work_directory |->
                            IF "work_directory" \in DOMAIN validation.result
                            THEN validation.result.work_directory ELSE <<>>],
              trace |-> visits(f, r.visited) \o validation.trace]
        ELSE [body |-> [success |-> TRUE, directory |-> d, total_files |-> Len(r.files),
                        scanned_files |-> r.scanned, files |-> r.files,
                        supported_extensions |-> get_supported_extensions(c)],
              trace |-> visits(f, r.visited) \o validation.trace]

\* FileScanner.scan_directory; order is the order in which the filesystem
\* lists the entries, g the filesystem as it is when metadata is collected
scan_directory(f, g, c, d, recursive, max_files, order) ==
    LET validation == validate_directory_path(f, c, d)
        r == scan_loop(f, g, c, order, 1, max_files, <<>>, 0)
    IN  IF ~validation.result.valid
        THEN [body |-> [success |-> FALSE,
                        error |-> validation.result.error,
                        error_code |-> validation.result.error_code,
                        directory |-> d, recursive |-> recursive,
                        total_files |-> 0, files |-> <<>>,
                        work_directory |->
                            IF "work_directory" \in DOMAIN validation.result
                            THEN validation.result.work_directory ELSE <<>>],
              trace |-> validation.trace]
        ELSE [body |-> [success |-> TRUE, directory |-> d, total_files |-> Len(r.files),
                        scanned_files |-> r.scanned, files |-> r.files,
                        supported_extensions |-> get_supported_extensions(c)],
              trace |-> validation.trace \o visits(f, r.visited)]

RECURSIVE find_loop(_, _, _, _)
\* the for loop of find_excel_files_by_name from entry k on
find_loop(f, c, order, k) ==
    IF k > Len(order) THEN <<>>
    ELSE IF is_file(f, order[k]) /\ is_excel_file(c, order[k])
    THEN <<get_file_metadata(f, order[k])>> \o find_loop(f, c, order, k + 1)
    ELSE find_loop(f, c, order, k + 1)

\* FileScanner.find_excel_files_by_name
find_excel_files_by_name(f, c, d, pattern, recursive, order) ==
    IF ~exists(f, d) \/ ~is_dir(f, d)
    THEN [body |-> [success |-> FALSE,
                    error |-> [msg |-> "Invalid directory", path |-> d],
                    directory |-> d, pattern |-> pattern,
                    total_files |-> 0, files |-> <<>>],
          trace |-> IF exists(f, d) THEN <<Ev("exists", f, d), Ev("is_dir", f, d)>>
                    ELSE <<Ev("exists", f, d)>>]
    ELSE [body |-> [success |-> TRUE, directory |-> d, pattern |-> pattern,
                    total_files |-> Len(find_loop(f, c, order, 1)),
                    files |-> find_loop(f, c, order, 1)],
          trace |-> <<Ev("exists", f, d), Ev("is_dir", f, d)>> \o visits(f, order)]

-----------------------------------------------------------------------------
(* server.call_tool: argument bags *)

NoneV == [t |-> "none", p |-> <<>>, l |-> <<>>]
EmptyStrV == [t |-> "emptystr", p |-> <<>>, l |-> <<>>]
IntV == [t |-> "int", p |-> <<>>, l |-> <<>>]
StrV(p) == [t |-> "str", p |-> p, l |-> <<>>]
ListV(l) == [t |-> "list", p |-> <<>>, l |-> l]

\* an optional integer argument
NoneArg == [t |-> "none", n |-> 0]
IntArg(n) == [t |-> "int", n |-> n]

\* Python truth value of an argument
Truthy(v) == v.t \in {"str", "int"} \/ (v.t = "list" /\ v.l # <<>>)

\* the exception types call_tool turns into an envelope
Caught == {"ValueError", "TypeError", "FileNotFoundError", "PermissionError"}

ToolFailed(exc) ==
    [success |-> FALSE, error |-> [msg |-> "Tool execution failed", exc |-> exc]]

ArgError(m) == [success |-> FALSE, error |-> [msg |-> m]]

\* one entry of a file_paths list
StrItem(p) == [t |-> "str", p |-> p]
NoneItem == [t |-> "none", p |-> <<>>]
IntItem == [t |-> "int", p |-> <<>>]

\* the items of a batch whose summary gets as far as opening the workbook,
\* so that what the bytes are matters
opening(f, c, l) ==
    {k \in 1 .. Len(l) : l[k].t = "str" /\ ~get_file_info_check(f, c, l[k].p).done}

\* whether the bytes of item k parse as a workbook
good_at(goods, k) == IF k \in DOMAIN goods THEN goods[k] ELSE TRUE

RECURSIVE get_multiple_excel_summaries_abort(_, _, _, _, _)
\* a batch loop that stops at the first item whose summary raises
get_multiple_excel_summaries_abort(f, c, l, goods, k) ==
    IF k > Len(l) THEN [summaries |-> <<>>, errors |-> <<>>, trace |-> <<>>]
    ELSE IF l[k].t # "str"
    THEN [summaries |-> <<>>,
          errors |-> <<[file_path |-> l[k], error |-> "TypeError"]>>,
          trace |-> <<>>]
    ELSE LET rest == get_multiple_excel_summaries_abort(f, c, l, goods, k + 1)
             one == get_file_info(f, c, l[k].p, good_at(goods, k))
         IN  [summaries |-> <<one.body>> \o rest.summaries,
              errors |-> rest.errors,
              trace |-> one.trace \o rest.trace]

RECURSIVE get_multiple_excel_summaries_prepend(_, _, _, _, _)
\* a batch loop that puts each result in front of the earlier ones
get_multiple_excel_summaries_prepend(f, c, l, goods, k) ==
    IF k > Len(l) THEN [summaries |-> <<>>, errors |-> <<>>, trace |-> <<>>]
    ELSE LET rest == get_multiple_excel_summaries_prepend(f, c, l, goods, k + 1)
         IN  IF l[k].t # "str"
             THEN [summaries |-> rest.summaries,
                   errors |-> rest.errors \o <<[file_path |-> l[k], error |-> "TypeError"]>>,
                   trace |-> rest.trace]
             ELSE LET one == get_file_info(f, c, l[k].p, good_at(goods, k))
                  IN  [summaries |-> rest.summaries \o <<one.body>>,
                       errors |-> rest.errors,
                       trace |-> one.trace \o rest.trace]

RECURSIVE get_multiple_excel_summaries(_, _, _, _, _)
\* server.get_multiple_excel_summaries from item k on: the summaries, the
\* errors and the filesystem accesses
get_multiple_excel_summaries(f, c, l, goods, k) ==
    IF k > Len(l) THEN [summaries |-> <<>>, errors |-> <<>>, trace |-> <<>>]
    ELSE LET rest == get_multiple_excel_summaries(f, c, l, goods, k + 1)
         IN  IF l[k].t # "str"
             THEN [summaries |-> rest.summaries,
                   errors |-> <<[file_path |-> l[k], error |-> "TypeError"]>> \o rest.errors,
                   trace |-> rest.trace]
             ELSE LET one == get_file_info(f, c, l[k].p, good_at(goods, k))
                  IN  [summaries |-> <<one.body>> \o rest.summaries,
                       errors |-> rest.errors,
                       trace |-> one.trace \o rest.trace]

\* an envelope whose success says that some item gave a summary
batch_envelope_strict(l, r) ==
    [success |-> \E i \in 1 .. Len(r.summaries) : r.summaries[i].success,
     total_files |-> Len(l),
     successful_files |-> Len(r.summaries), failed_files |-> Len(r.errors),
     summaries |-> r.summaries, errors |-> r.errors]

\* the envelope get_multiple_excel_summaries returns
batch_envelope(l, r) ==
    [success |-> TRUE, total_files |-> Len(l),
     successful_files |-> Len(r.summaries), failed_files |-> Len(r.errors),
     summaries |-> r.summaries, errors |-> r.errors]

-----------------------------------------------------------------------------
(* State *)

\* the paths callers pass
PathPool ==
    {WorkP, AFile, NTxt, SubDir, LnkFile, Work2P, CFile, OutP, SFile,
     <<"work", "sub", "..", "A.XLSX">>,
     <<"work", "..", "out", "s.xlsx">>,
     <<"out", "..", "work", "A.XLSX">>,
     <<"work", "missing.xlsx">>,
     LockedFile}

\* the files the external actor creates, rewrites and deletes
MutableFiles == {AFile, SFile}

\* the files the external actor rewrites only
ResizableFiles == {AFile, SFile, NTxt}

\* the paths callers name in tool calls
FilePool ==
    {AFile, NTxt, LnkFile, SFile, OutP,
     <<"work", "sub", "..", "A.XLSX">>,
     <<"work", "..", "out", "s.xlsx">>,
     <<"work", "missing.xlsx">>}

FilePathArgs == {NoneV, EmptyStrV, IntV} \cup {StrV(p) : p \in FilePool}

FilePathsArgs ==
    {ListV(<<>>), IntV,
     ListV(<<StrItem(AFile), StrItem(<<"work", "missing.xlsx">>)>>),
     ListV(<<StrItem(SFile), NoneItem, StrItem(NTxt)>>),
     ListV(<<StrItem(<<"work", "missing.xlsx">>), IntItem, StrItem(AFile), NoneItem,
             StrItem(<<"work", "missing.xlsx">>)>>)}

SearchTermArgs == {NoneV, EmptyStrV, StrV(<<"Total">>)}

ArgsNone == [isnone |-> TRUE, file_path |-> NoneV, file_paths |-> NoneV, search_term |-> NoneV]

Args(fp, fps, st) == [isnone |-> FALSE, file_path |-> fp, file_paths |-> fps, search_term |-> st]

\* the argument bags of get_excel_summary calls
SummaryBags ==
    {ArgsNone}
    \cup {Args(fp, NoneV, NoneV) : fp \in FilePathArgs}
    \cup {Args(fp, fps, NoneV) : fp \in {NoneV, EmptyStrV, StrV(AFile)}, fps \in FilePathsArgs}

\* the argument bags of read_excel_data and get_worksheet_summary calls
FileBags == {ArgsNone} \cup {Args(fp, NoneV, NoneV) : fp \in FilePathArgs}

\* the argument bags of search_in_excel calls
SearchBags ==
    {ArgsNone}
    \cup {Args(fp, NoneV, st) : fp \in FilePathArgs, st \in {StrV(<<"Total">>)}}
    \cup {Args(fp, NoneV, st) : fp \in {NoneV, StrV(AFile)}, st \in SearchTermArgs}

NoCall == [op |-> "none", path |-> <<>>]

NoResp == [kind |-> "none", op |-> "none", path |-> <<>>, exc |-> "", body |-> [pending |-> TRUE]]

Init ==
    /\ fs = InitialFs
    /\ config \in Configs
    /\ pc = "idle"
    /\ cur = NoCall
    /\ resp = NoResp
    /\ log = <<>>

\* the external actor removes a file
EnvDelete(l) ==
    /\ fs[l].kind = "file"
    /\ fs' = [fs EXCEPT ![l] = NoNode]
    /\ UNCHANGED <<config, pc, cur, resp, log>>

\* the external actor creates a file or rewrites it with another size
EnvWrite(l, sz) ==
    /\ \/ l \in MutableFiles /\ fs[l].kind = "none"
       \/ fs[l].kind = "file" /\ fs[l].size # sz
    /\ fs' = [fs EXCEPT ![l] = FileNode(sz)]
    /\ UNCHANGED <<config, pc, cur, resp, log>>

\* a call returns the envelope b
Return(op, p, b, lg) ==
    /\ resp' = [kind |-> "envelope", op |-> op, path |-> p, exc |-> "", body |-> b]
    /\ log' = lg
    /\ pc' = "idle"
    /\ cur' = NoCall

\* an exception reaches the except clause of call_tool
Raise(op, p, exc, lg) ==
    IF exc \in Caught
    THEN Return(op, p, ToolFailed(exc), lg)
    ELSE /\ resp' = [kind |-> "raised", op |-> op, path |-> p, exc |-> exc,
                     body |-> [pending |-> FALSE]]
         /\ log' = lg
         /\ pc' = "idle"
         /\ cur' = NoCall

\* a call goes on to its next step
Proceed(op, p, step, lg) ==
    /\ resp' = NoResp
    /\ log' = lg
    /\ pc' = step
    /\ cur' = [op |-> op, path |-> p]

\* a direct call of ConfigManager.is_path_within_work_directory
PathPolicyCheck(p) ==
    /\ pc = "idle"
    /\ resp' = [kind |-> "policy", op |-> "is_path_within_work_directory", path |-> p,
                exc |-> "",
                body |-> [allowed |-> is_path_within_work_directory(fs, config, p)]]
    /\ log' = <<Ev("policy", fs, p)>>
    /\ UNCHANGED <<fs, config, pc, cur>>

\* a direct call of ExcelProcessor.validate_file_path
ValidateFilePath(p) ==
    /\ pc = "idle"
    /\ resp' = [kind |-> "validation", op |-> "validate_file_path", path |-> p, exc |-> "",
                body |-> validate_file_path(fs, config, p).result]
    /\ log' = validate_file_path(fs, config, p).trace
    /\ UNCHANGED <<fs, config, pc, cur>>

\* call_tool("get_excel_summary", bag), up to the return or to the point
\* where get_file_info opens the workbook
CallGetSummary(bag) ==
    /\ pc = "idle"
    /\ UNCHANGED <<fs, config>>
    /\ IF bag.isnone THEN Raise("get_excel_summary", <<>>, "AttributeError", <<>>)
       ELSE LET file_path == bag.file_path
                file_paths == bag.file_paths
            IN  IF Truthy(file_path) /\ ~Truthy(file_paths)
                THEN IF file_path.t # "str"
                     THEN Raise("get_excel_summary", <<>>, "TypeError", <<>>)
                     ELSE LET chk == get_file_info_check(fs, config, file_path.p)
                          IN  IF chk.done
                              THEN Return("get_excel_summary", file_path.p, chk.body, chk.trace)
                              ELSE Proceed("get_excel_summary", file_path.p, "summary_parse",
                                           chk.trace)
                ELSE IF file_paths.t # "none" /\ ~Truthy(file_path)
                THEN IF file_paths.t # "list" \/ file_paths.l = <<>>
                     THEN Return("get_excel_summary", <<>>,
                                 ArgError("file_paths must be a non-empty list"), <<>>)
                     ELSE \E goods \in [opening(fs, config, file_paths.l) -> BOOLEAN] :
                            LET r == get_multiple_excel_summaries(fs, config, file_paths.l,
                                                                  goods, 1)
                            IN  Return("get_excel_summary_batch", <<>>,
                                       batch_envelope(file_paths.l, r), r.trace)
                ELSE Return("get_excel_summary", <<>>,
                            ArgError("Either file_path or file_paths is required, but not both"),
                            <<>>)

\* get_file_info: openpyxl.load_workbook on the validated path
SummaryParse(good) ==
    /\ pc = "summary_parse"
    /\ UNCHANGED <<fs, config>>
    /\ IF open_workbook(fs, cur.path, good) # "ok"
       THEN Return(cur.op, cur.path,
                   file_info_failed(cur.path, open_workbook(fs, cur.path, good)),
                   log \o parse_events(fs, cur.path))
       ELSE Proceed(cur.op, cur.path, "summary_stat", log \o parse_events(fs, cur.path))

\* get_file_info: file_path.stat() after the workbook is closed
SummaryStat ==
    /\ pc = "summary_stat"
    /\ UNCHANGED <<fs, config>>
    /\ IF ~exists(fs, cur.path)
       THEN Return(cur.op, cur.path, file_info_failed(cur.path, "FileNotFoundError"),
                   log \o <<Ev("stat", fs, cur.path)>>)
       ELSE Return(cur.op, cur.path, file_info_ok(fs, cur.path),
                   log \o <<Ev("stat", fs, cur.path)>>)

\* call_tool for read_excel_data, get_worksheet_summary (need_term = FALSE)
\* and search_in_excel (need_term = TRUE), up to the return or to the point
\* where the parser is called
CallParserTool(op, bag, need_term) ==
    /\ pc = "idle"
    /\ UNCHANGED <<fs, config>>
    /\ IF bag.isnone THEN Raise(op, <<>>, "AttributeError", <<>>)
       ELSE IF ~Truthy(bag.file_path) \/ (need_term /\ ~Truthy(bag.search_term))
       THEN Return(op, <<>>,
                   ArgError(IF need_term THEN "file_path and search_term are required"
                            ELSE "file_path is required"), <<>>)
       ELSE IF bag.file_path.t # "str" THEN Raise(op, <<>>, "TypeError", <<>>)
       ELSE LET chk == parser_front_check(fs, config, bag.file_path.p)
            IN  IF chk.done THEN Return(op, bag.file_path.p, chk.body, chk.trace)
                ELSE Proceed(op, bag.file_path.p, "parse", chk.trace)

CallReadData(bag) == CallParserTool("read_excel_data", bag, FALSE)

CallWorksheetSummary(bag) == CallParserTool("get_worksheet_summary", bag, FALSE)

CallSearch(bag) == CallParserTool("search_in_excel", bag, TRUE)

\* pd.read_excel / openpyxl.load_workbook inside the three parser front ends
Parse(good) ==
    /\ pc = "parse"
    /\ UNCHANGED <<fs, config>>
    /\ IF open_workbook(fs, cur.path, good) # "ok"
       THEN Return(cur.op, cur.path,
                   parse_failed(cur.op, cur.path, open_workbook(fs, cur.path, good)),
                   log \o parse_events(fs, cur.path))
       ELSE Return(cur.op, cur.path, parse_ok(cur.op, cur.path),
                   log \o parse_events(fs, cur.path))

\* an unknown-tool branch that resets the work directory on the way
CallUnknownReconfiguring(bag) ==
    /\ pc = "idle"
    /\ fs' = fs
    /\ config' = [config EXCEPT !.work_directory = OutP]
    /\ Return("invalid_tool", <<>>,
              [success |-> FALSE, error |-> [msg |-> "Unknown tool", name |-> "invalid_tool"]],
              <<>>)

\* call_tool with a name that is none of the five tools
CallUnknown(bag) ==
    /\ pc = "idle"
    /\ UNCHANGED <<fs, config>>
    /\ Return("invalid_tool", <<>>,
              [success |-> FALSE, error |-> [msg |-> "Unknown tool", name |-> "invalid_tool"]],
              <<>>)

\* the directories callers ask to scan
DirPool == {WorkP, SubDir, OutP, AFile, SFile, <<"work", "..", "out">>, <<"work", "gone">>}

\* the caps callers pass
MaxFilesArgs == {NoneCap, 0, 1}

Patterns == {"*", "*.xlsx"}

\* the filesystem after the external actor removed the files at gone
without(f, gone) == [l \in DOMAIN f |-> IF l \in gone THEN NoNode ELSE f[l]]

\* what the external actor may remove while a scan is between is_file()
\* and stat() of an entry: nothing, or the file one listed entry leads to
vanishing(f, c, d, order) ==
    IF ~validate_directory_path(f, c, d).result.valid THEN {{}}
    ELSE {{}} \cup
         {{resolve(f, order[k])} :
             k \in {j \in 1 .. Len(order) :
                      is_file(f, order[j]) /\ resolve(f, order[j]) \in MutableFiles}}

\* where scan_directory lists: the resolved directory of its validation
scan_base(f, d) == resolve(f, d)

\* a direct call of FileScanner.scan_directory (list_excel_files)
ScanDirectory(d, recursive, max_files) ==
    /\ pc = "idle"
    /\ UNCHANGED config
    /\ \E order \in listing(glob(fs, scan_base(fs, d), "*", recursive)) :
         \E gone \in vanishing(fs, config, d, order) :
           LET r == scan_directory(fs, without(fs, gone), config, d, recursive, max_files,
                                   order)
           IN  /\ fs' = without(fs, gone)
               /\ Return("scan_directory", d, r.body, r.trace)

\* a direct call of FileScanner.find_excel_files_by_name
FindByName(d, pattern, recursive) ==
    /\ pc = "idle"
    /\ UNCHANGED <<fs, config>>
    /\ \E order \in listing(glob(fs, d, pattern, recursive)) :
         LET r == find_excel_files_by_name(fs, config, d, pattern, recursive, order)
         IN  Return("find_excel_files_by_name", d, r.body, r.trace)

\* the argument bags of list_excel_files calls
ListArgsNone ==
    [isnone |-> TRUE, directory_path |-> NoneV, recursive |-> "none", max_files |-> NoneArg]

ListArgs(d, r, m) ==
    [isnone |-> FALSE, directory_path |-> d, recursive |-> r, max_files |-> m]

ListBags ==
    {ListArgsNone,
     ListArgs(NoneV, "none", NoneArg),
     ListArgs(StrV(OutP), "false", IntArg(2))}

\* logger.info("Calling tool: %s with arguments: %s"): the directory the
\* caller named, if any
Called(bag) == [ev |-> "call", path |-> bag.directory_path.p, real |-> <<>>]

\* a list_excel_files that takes the directory, the flag and the cap from
\* the caller's arguments when they are given
CallListFilesFromArguments(bag) ==
    /\ pc = "idle"
    /\ UNCHANGED config
    /\ LET directory_path == IF bag.directory_path.t = "str" THEN bag.directory_path.p
                             ELSE get_work_directory(config)
           recursive == IF bag.recursive = "none" THEN get_recursive_search(config)
                        ELSE bag.recursive = "true"
           max_files == IF bag.max_files.t = "int" THEN bag.max_files.n
                        ELSE get_max_files_per_search(config)
       IN  \E order \in listing(glob(fs, scan_base(fs, directory_path), "*", recursive)) :
             \E gone \in vanishing(fs, config, directory_path, order) :
               LET r == scan_directory(fs, without(fs, gone), config, directory_path,
                                       recursive, max_files, order)
               IN  /\ fs' = without(fs, gone)
                   /\ Return("list_excel_files", directory_path, r.body,
                             <<Called(bag)>> \o r.trace)

\* call_tool("list_excel_files", bag): the arguments are logged, not read
CallListFiles(bag) ==
    /\ pc = "idle"
    /\ UNCHANGED config
    /\ LET directory_path == get_work_directory(config)
           recursive == get_recursive_search(config)
           max_files == get_max_files_per_search(config)
       IN  \E order \in listing(glob(fs, scan_base(fs, directory_path), "*", recursive)) :
             \E gone \in vanishing(fs, config, directory_path, order) :
               LET r == scan_directory(fs, without(fs, gone), config, directory_path,
                                       recursive, max_files, order)
               IN  /\ fs' = without(fs, gone)
                   /\ Return("list_excel_files", directory_path, r.body,
                             <<Called(bag)>> \o r.trace)

Next ==
    \/ \E l \in MutableFiles : EnvDelete(l)
    \/ \E l \in ResizableFiles, sz \in Sizes : EnvWrite(l, sz)
    \/ \E p \in PathPool : PathPolicyCheck(p)
    \/ \E p \in PathPool : ValidateFilePath(p)
    \/ \E bag \in SummaryBags : CallGetSummary(bag)
    \/ \E good \in BOOLEAN : SummaryParse(good)
    \/ SummaryStat
    \/ \E bag \in FileBags : CallReadData(bag)
    \/ \E bag \in FileBags : CallWorksheetSummary(bag)
    \/ \E bag \in SearchBags : CallSearch(bag)
    \/ \E good \in BOOLEAN : Parse(good)
    \/ \E bag \in {ArgsNone, Args(NoneV, NoneV, NoneV)} : CallUnknown(bag)

\* the dispatcher and the file operations
Spec == Init /\ [][Next]_vars

NextScan ==
    \/ \E l \in MutableFiles : EnvDelete(l)
    \/ \E l \in MutableFiles : EnvWrite(l, 1)
    \/ \E d \in DirPool, recursive \in BOOLEAN, max_files \in MaxFilesArgs :
         ScanDirectory(d, recursive, max_files)
    \/ \E d \in DirPool, pattern \in Patterns, recursive \in BOOLEAN :
         FindByName(d, pattern, recursive)
    \/ \E bag \in ListBags : CallListFiles(bag)

\* the scanner
SpecScan == Init /\ [][NextScan]_vars

-----------------------------------------------------------------------------
(* ExcelProcessor: worksheet data *)

\* data rows of the largest worksheet
MaxDataRows == 3

\* the cell values of the first column, row after row
CellAt(i) ==
    CASE i % 3 = 1 -> "Total"
      [] i % 3 = 2 -> "total"
      [] OTHER -> "Subtotal"

\* the DataFrame pd.read_excel makes of the first sheet: the header row
\* and n data rows
DataFrame(n) ==
    [columns |-> <<"Item", "Note">>,
     values |-> [i \in 1 .. n |-> <<CellAt(i), "x">>]]

Sheets == {DataFrame(n) : n \in 0 .. MaxDataRows}

\* DataFrame.head(n) for n >= 0
head(df, n) ==
    [df EXCEPT !.values = SubSeq(df.values, 1, IF n < Len(df.values) THEN n ELSE Len(df.values))]

\* Python truth value of an optional integer
TruthyInt(v) == v.t = "int" /\ v.n # 0

\* read_worksheet_data after pd.read_excel returned df: the row limit and
\* the success envelope (include_headers = True)
read_rows(p, df, max_rows) ==
    LET cut == IF TruthyInt(max_rows) /\ Len(df.values) > max_rows.n
               THEN head(df, max_rows.n) ELSE df
        headers == cut.columns
        rows == cut.values
    IN  [success |-> TRUE, file_path |-> p,
         headers |-> headers, rows |-> rows,
         row_count |-> Len(rows), column_count |-> Len(headers),
         max_rows_applied |-> max_rows, include_headers |-> TRUE]

\* ExcelProcessor.read_worksheet_data on one filesystem state; df is what
\* the file holds when it is a workbook
read_worksheet_data(f, c, p, df, max_rows) ==
    LET chk == parser_front_check(f, c, p)
    IN  IF chk.done THEN [body |-> chk.body, trace |-> chk.trace]
        ELSE IF open_workbook(f, p, TRUE) # "ok"
        THEN [body |-> parse_failed("read_excel_data", p, open_workbook(f, p, TRUE)),
              trace |-> parse_events(f, p)]
        ELSE [body |-> read_rows(p, df, max_rows), trace |-> parse_events(f, p)]

\* str.lower on the texts of cells and search terms
str_lower(t) ==
    CASE t \in {"Total", "TOTAL"} -> "total"
      [] t = "Subtotal" -> "subtotal"
      [] OTHER -> t

\* term in value, for the texts of cells and search terms
contains(term, value) ==
    \/ value = term
    \/ term = "total" /\ value \in {"Subtotal", "subtotal"}

\* the cells of a DataFrame in the order the search walks them: column
\* after column, and in a column row after row
cells(df) ==
    [k \in 1 .. (Len(df.columns) * Len(df.values)) |->
        LET col_idx == (k - 1) \div Len(df.values)
            row_idx == (k - 1) % Len(df.values)
        IN  [row |-> row_idx + 1,
             column |-> df.columns[col_idx + 1],
             column_index |-> col_idx,
             value |-> df.values[row_idx + 1][col_idx + 1],
             cell_address |-> <<df.columns[col_idx + 1], row_idx + 1>>]]

\* search_in_worksheet after pd.read_excel returned df: the search and the
\* success envelope
search_rows(p, df, search_term, case_sensitive) ==
    LET term == IF ~case_sensitive THEN str_lower(search_term) ELSE search_term
        matches == SelectSeq(cells(df),
                             LAMBDA cell : IF case_sensitive
                                           THEN contains(term, cell.value)
                                           ELSE contains(term, str_lower(cell.value)))
    IN  [success |-> TRUE, file_path |-> p,
         search_term |-> term, case_sensitive |-> case_sensitive,
         total_matches |-> Len(matches), matches |-> matches]

\* ExcelProcessor.search_in_worksheet on one filesystem state
search_in_worksheet(f, c, p, df, search_term, case_sensitive) ==
    LET chk == parser_front_check(f, c, p)
    IN  IF chk.done THEN [body |-> chk.body, trace |-> chk.trace]
        ELSE IF open_workbook(f, p, TRUE) # "ok"
        THEN [body |-> parse_failed("search_in_excel", p, open_workbook(f, p, TRUE)),
              trace |-> parse_events(f, p)]
        ELSE [body |-> search_rows(p, df, search_term, case_sensitive),
              trace |-> parse_events(f, p)]

\* the texts callers search for
SearchTerms == {"Total", "total", "TOTAL"}

\* the files whose worksheets are read directly
DataPool == {AFile, NTxt, <<"work", "missing.xlsx">>}

MaxRowsArgs == {NoneArg} \cup {IntArg(n) : n \in 0 .. MaxDataRows}

\* a direct call of ExcelProcessor.read_worksheet_data
ReadWorksheet(p, df, max_rows) ==
    /\ pc = "idle"
    /\ UNCHANGED <<fs, config>>
    /\ LET r == read_worksheet_data(fs, config, p, df, max_rows)
       IN  Return("read_worksheet_data", p, r.body, r.trace)

\* a direct call of ExcelProcessor.search_in_worksheet
SearchWorksheet(p, df, search_term, case_sensitive) ==
    /\ pc = "idle"
    /\ UNCHANGED <<fs, config>>
    /\ LET r == search_in_worksheet(fs, config, p, df, search_term, case_sensitive)
       IN  Return("search_in_worksheet", p, r.body, r.trace)

NextData ==
    \/ \E l \in MutableFiles : EnvDelete(l)
    \/ \E l \in ResizableFiles, sz \in Sizes : EnvWrite(l, sz)
    \/ \E p \in DataPool, df \in Sheets, max_rows \in MaxRowsArgs : ReadWorksheet(p, df, max_rows)
    \/ \E p \in DataPool, df \in Sheets, search_term \in SearchTerms, case_sensitive \in BOOLEAN :
         SearchWorksheet(p, df, search_term, case_sensitive)

\* the worksheet readers
SpecData == Init /\ [][NextData]_vars

-----------------------------------------------------------------------------
(* The claims *)

\* the canonical form of each path callers pass, written out by hand:
\* absolute, links followed, ".." collapsed
CanonicalForm(p) ==
    CASE p = LnkFile -> SFile
      [] p = <<"work", "sub", "..", "A.XLSX">> -> AFile
      [] p = <<"out", "..", "work", "A.XLSX">> -> AFile
      [] p = <<"work", "..", "out", "s.xlsx">> -> SFile
      [] p = <<"work", "..", "out">> -> OutP
      [] p = <<"out", "..", "work">> -> WorkP
      [] OTHER -> p

\* the canonical form is the work root or below it, by whole segments
InsideRoot(c, p) == IsPrefix(CanonicalForm(c.work_directory), CanonicalForm(p))

HasEvent(lg, kind) == \E i \in 1 .. Len(lg) : lg[i].ev = kind

FileOps == {"get_excel_summary", "read_excel_data", "search_in_excel", "get_worksheet_summary"}

\* the body of a failure envelope carries the error code code
HasCode(b, code) ==
    /\ "success" \in DOMAIN b
    /\ ~b.success
    /\ "error_code" \in DOMAIN b
    /\ b.error_code = code

\* C1: is_path_within_work_directory allows a path exactly when its
\* canonical form is the canonical work root or a descendant of it on
\* segment boundaries: the sibling /work2 is denied, a path whose ".."
\* leads back inside is allowed, a link or a ".." leading outside is denied.
C1_PathPolicyDecision ==
    resp.kind = "policy" => (resp.body.allowed <=> InsideRoot(config, resp.path))

\* C1 witness: the policy was asked about the link below the work root
\* whose target lies outside, and denied it
C1_Witness ==
    /\ resp.kind = "policy"
    /\ resp.path = LnkFile
    /\ ~resp.body.allowed

\* C2: in each of the four file operations a path whose canonical form is
\* outside the work root never reaches the parser and is never opened; the
\* call ends in a failure envelope, and once the policy check has been
\* reached the error code is ACCESS_DENIED.
C2_FileOpsConfined ==
    /\ (pc # "idle" /\ ~InsideRoot(config, cur.path)) => FALSE
    /\ (resp.kind = "envelope" /\ resp.op \in FileOps /\ resp.path # <<>>
        /\ ~InsideRoot(config, resp.path))
       => /\ ~HasEvent(log, "parse")
          /\ ~HasEvent(log, "open")
          /\ ~resp.body.success
          /\ HasEvent(log, "policy") => HasCode(resp.body, "ACCESS_DENIED")

\* C3: a scan_directory whose target fails validation (missing, not a
\* directory, outside the work root) returns a failure envelope with
\* total_files = 0 and no files, and lists no directory entry at all.
C3_FailedScanListsNothing ==
    (resp.op = "scan_directory"
     /\ (~InsideRoot(config, resp.path) \/ resp.path \notin {WorkP, SubDir}))
    => /\ ~resp.body.success
       /\ resp.body.total_files = 0
       /\ resp.body.files = <<>>
       /\ ~HasEvent(log, "visit")

\* C3 witness: a scan of the existing directory /out was refused
C3_Witness ==
    /\ resp.op = "scan_directory"
    /\ resp.path = OutP
    /\ HasCode(resp.body, "ACCESS_DENIED")
    /\ fs[SFile].kind = "file"

\* C4: find_excel_files_by_name on a directory whose canonical form is
\* outside the work root returns success = false with no files and lists
\* no entry of that directory.
C4_FindConfined ==
    (resp.op = "find_excel_files_by_name" /\ ~InsideRoot(config, resp.path))
    => /\ ~resp.body.success
       /\ resp.body.files = <<>>
       /\ ~HasEvent(log, "visit")

\* C5: every file descriptor in a successful scan result names a path the
\* path policy allows, links whose targets lie outside the root included.
C5_ScanResultsAllowed ==
    (resp.op \in {"scan_directory", "list_excel_files"} /\ resp.body.success)
    => \A i \in 1 .. Len(resp.body.files) :
         /\ InsideRoot(config, resp.body.files[i].file_path)
         /\ is_path_within_work_directory(fs, config, resp.body.files[i].file_path)

\* the files outside the work root
OutsideFiles == {CFile, SFile}

\* the filesystems that differ from f in one node outside the work root
OutsideVariants(f) ==
    {[f EXCEPT ![l] = n] : l \in OutsideFiles,
                           n \in {NoNode, DirNode, FileNode(1), FileNode(200)}}

\* the filesystems that differ from f in the size of one file outside the
\* work root
SizeVariants(f) ==
    {[f EXCEPT ![l] = FileNode(sz)] : l \in {m \in OutsideFiles : f[m].kind = "file"},
                                      sz \in Sizes}

\* C6 as stated: for a path whose canonical form is outside the work root,
\* validate_file_path and get_summary answer the same in any two
\* filesystems that differ only outside the work root.
C6_NoLeakOutside ==
    /\ (resp.kind = "validation" /\ ~InsideRoot(config, resp.path))
       => \A g \in OutsideVariants(fs) :
            validate_file_path(g, config, resp.path).result = resp.body
    /\ (resp.kind = "envelope" /\ resp.op = "get_excel_summary" /\ resp.path # <<>>
        /\ ~InsideRoot(config, resp.path))
       => \A g \in OutsideVariants(fs) :
            get_file_info_check(g, config, resp.path).body = resp.body

\* C6 amended: for a path whose canonical form is outside the work root,
\* validate_file_path and get_summary answer the same in any two
\* filesystems that differ only in the sizes of files outside the work
\* root: the answer tells existence and file type, never the size.
C6_NoSizeLeakOutside ==
    \A p \in PathPool : ~InsideRoot(config, p) =>
        \A g \in SizeVariants(fs) :
            /\ validate_file_path(g, config, p).result
                 = validate_file_path(fs, config, p).result
            /\ get_file_info_check(g, config, p).body
                 = get_file_info_check(fs, config, p).body

\* C6 witness: a file above the size ceiling outside the work root was
\* validated and refused as outside
C6_Witness ==
    /\ resp.kind = "validation"
    /\ resp.path = SFile
    /\ resp.body.error_code = "ACCESS_DENIED"
    /\ fs[SFile].size = 200

\* the error code the documented order of checks gives for p, "" for none
ExpectedCode(f, c, p) ==
    IF NodeAt(f, CanonicalForm(p)).kind = "none" THEN "FILE_NOT_FOUND"
    ELSE IF NodeAt(f, CanonicalForm(p)).kind # "file" THEN "NOT_A_FILE"
    ELSE IF ~InsideRoot(c, p) THEN "ACCESS_DENIED"
    ELSE IF NodeAt(f, CanonicalForm(p)).size > DefaultMaxFileSizeMb THEN "FILE_TOO_LARGE"
    ELSE IF Last(p) = "n.txt" THEN "UNSUPPORTED_FORMAT"
    ELSE ""

\* C7: file validation reports the first failing check in the order
\* FILE_NOT_FOUND, NOT_A_FILE, ACCESS_DENIED, FILE_TOO_LARGE,
\* UNSUPPORTED_FORMAT, each with exactly that error code.
C7_ValidationOrder ==
    [][(pc = "idle" /\ fs' = fs /\ resp'.op = "get_excel_summary"
        /\ resp'.kind = "envelope" /\ resp'.path # <<>>)
       => HasCode(resp'.body, ExpectedCode(fs, config, resp'.path))]_vars

\* C8: in all four file operations a file that is missing, not a regular
\* file or above the size ceiling is rejected with FILE_NOT_FOUND,
\* NOT_A_FILE or FILE_TOO_LARGE, and the parser is never called on it.
C8_ChecksBeforeParse ==
    [][/\ (pc = "idle" /\ pc' \in {"parse", "summary_parse"})
          => ExpectedCode(fs, config, cur'.path)
               \notin {"FILE_NOT_FOUND", "NOT_A_FILE", "FILE_TOO_LARGE"}
       /\ (pc = "idle" /\ fs' = fs /\ resp'.op \in FileOps
           /\ resp'.kind = "envelope" /\ resp'.path # <<>>
           /\ ExpectedCode(fs, config, resp'.path)
                \in {"FILE_NOT_FOUND", "NOT_A_FILE", "FILE_TOO_LARGE"})
          => HasCode(resp'.body, ExpectedCode(fs, config, resp'.path))]_vars

\* C9: call_tool never raises: whatever the tool name and the argument
\* bag, the call ends with an envelope.
C9_NothingRaised == resp.kind # "raised"

ErrorCodes ==
    {"FILE_NOT_FOUND", "NOT_A_FILE", "ACCESS_DENIED", "FILE_TOO_LARGE",
     "UNSUPPORTED_FORMAT", "DIRECTORY_NOT_FOUND", "NOT_A_DIRECTORY",
     "VALIDATION_ERROR", "UNKNOWN_OPERATION", "MISSING_ARGUMENT", "EMPTY_BATCH"}

\* C10: every envelope carries a boolean success, and every failure
\* envelope carries an error and an error code of the catalogue.
C10_EnvelopeShape ==
    resp.kind = "envelope"
    => /\ "success" \in DOMAIN resp.body
       /\ resp.body.success \in BOOLEAN
       /\ ~resp.body.success
          => /\ "error" \in DOMAIN resp.body
             /\ "error_code" \in DOMAIN resp.body
             /\ resp.body.error_code \in ErrorCodes

\* C11: a call with a name that is none of the five tools returns one
\* failure envelope whose error names the unknown tool and whose error
\* code is UNKNOWN_OPERATION, and touches neither the scanner nor a file.
C11_UnknownOperation ==
    resp.op = "invalid_tool"
    => /\ resp.kind = "envelope"
       /\ ~resp.body.success
       /\ resp.body.error.msg = "Unknown tool"
       /\ log = <<>>
       /\ HasCode(resp.body, "UNKNOWN_OPERATION")

\* an argument that was given a value
Present(v) == v.t # "none"

\* the bags that lack a required argument of read_excel_data and
\* get_worksheet_summary
MissingFileBags == {bag \in FileBags : ~bag.isnone /\ ~Present(bag.file_path)}

\* the bags that lack a required argument of search_in_excel
MissingSearchBags ==
    {bag \in SearchBags : ~bag.isnone /\ (~Present(bag.file_path) \/ ~Present(bag.search_term))}

\* the envelope of a missing required argument
MissingArgument(b) ==
    /\ HasCode(b, "MISSING_ARGUMENT")
    /\ b.error.msg \in {"file_path is required", "search_term is required"}

\* C12: read_excel_data and get_worksheet_summary without file_path, and
\* search_in_excel without file_path or without search_term, return a
\* failure envelope with error code MISSING_ARGUMENT and an error of the
\* form "<name> is required", and the parser front end is not called.
C12_MissingArgument ==
    [][/\ \A bag \in MissingFileBags :
            (CallReadData(bag) \/ CallWorksheetSummary(bag))
            => /\ pc' = "idle" /\ log' = <<>>
               /\ resp'.kind = "envelope"
               /\ MissingArgument(resp'.body)
       /\ \A bag \in MissingSearchBags :
            CallSearch(bag)
            => /\ pc' = "idle" /\ log' = <<>>
               /\ resp'.kind = "envelope"
               /\ MissingArgument(resp'.body)]_vars

\* the get_excel_summary bags with both argument forms or with neither
BothOrNeitherBags ==
    {bag \in SummaryBags :
        ~bag.isnone /\ (Present(bag.file_path) <=> Present(bag.file_paths))}

\* C13: get_excel_summary with both file_path and file_paths given
\* (whatever file_paths is, the empty list included) or with neither
\* returns a failure envelope, and neither the single-file nor the batch
\* summary is run.
C13_ExactlyOneForm ==
    [][\A bag \in BothOrNeitherBags :
         CallGetSummary(bag)
         => /\ pc' = "idle" /\ log' = <<>>
            /\ resp'.kind = "envelope"
            /\ resp'.op = "get_excel_summary"
            /\ ~resp'.body.success]_vars

\* C14: get_excel_summary with file_paths = [] and no file_path returns a
\* failure envelope with the error code EMPTY_BATCH and the text
\* "file_paths must be a non-empty list", different from the
\* both-or-neither error, and no summary is attempted.
C14_EmptyBatch ==
    [][CallGetSummary(Args(NoneV, ListV(<<>>), NoneV))
       => /\ pc' = "idle" /\ log' = <<>>
          /\ resp'.kind = "envelope"
          /\ resp'.body.error.msg = "file_paths must be a non-empty list"
          /\ resp'.body # ArgError("Either file_path or file_paths is required, but not both")
          /\ HasCode(resp'.body, "EMPTY_BATCH")]_vars

\* C15: in a batch envelope successful_files is the number of items whose
\* summary succeeded and failed_files the number whose summary failed; a
\* failed item is in errors and not among the summaries.
C15_BatchCounts ==
    resp.op = "get_excel_summary_batch"
    => LET b == resp.body
           ok == {i \in 1 .. Len(b.summaries) : b.summaries[i].success}
       IN  /\ b.successful_files = Cardinality(ok)
           /\ b.failed_files = b.total_files - Cardinality(ok)
           /\ \A i \in 1 .. Len(b.summaries) : b.summaries[i].success

\* the get_excel_summary bags that run the batch
BatchBags ==
    {bag \in SummaryBags :
        /\ ~bag.isnone /\ ~Truthy(bag.file_path)
        /\ bag.file_paths.t = "list" /\ bag.file_paths.l # <<>>}

\* how many accesses of one kind a call made on the path p
CountEvents(lg, kind, p) ==
    Cardinality({i \in 1 .. Len(lg) : lg[i].ev = kind /\ lg[i].path = p})

\* how often an item occurs in a file_paths list
Occurrences(l, item) == Cardinality({k \in 1 .. Len(l) : l[k] = item})

\* C16: a batch evaluates every item exactly once whatever became of the
\* items before it, total_files is the length of file_paths, and
\* successful_files + failed_files = total_files.
C16_BatchIsolation ==
    [][(pc = "idle" /\ resp'.op = "get_excel_summary_batch")
       => \A bag \in BatchBags :
            CallGetSummary(bag)
            => LET l == bag.file_paths.l
                   b == resp'.body
               IN  /\ b.total_files = Len(l)
                   /\ b.successful_files + b.failed_files = b.total_files
                   /\ Len(b.summaries) + Len(b.errors) = Len(l)
                   /\ \A k \in 1 .. Len(l) :
                        IF l[k].t = "str"
                        THEN CountEvents(log', "exists", l[k].p) = Occurrences(l, l[k])
                        ELSE Cardinality({i \in 1 .. Len(b.errors) :
                                            b.errors[i].file_path = l[k]})
                               = Occurrences(l, l[k])]_vars

\* C16 witness: a batch of three whose second item raised went on to
\* summarise the third
C16_Witness ==
    /\ resp.op = "get_excel_summary_batch"
    /\ resp.body.total_files = 3
    /\ Len(resp.body.errors) = 1
    /\ Len(resp.body.summaries) = 2
    /\ CountEvents(log, "exists", NTxt) = 1

\* the items of a list that are strings, and those that are not, in order
StrItems(l) == SelectSeq(l, LAMBDA x : x.t = "str")

OtherItems(l) == SelectSeq(l, LAMBDA x : x.t # "str")

\* C17: the summaries of a batch, and its errors, stand in the order of
\* their items in file_paths, duplicates and failing items included.
C17_BatchOrder ==
    [][(pc = "idle" /\ resp'.op = "get_excel_summary_batch")
       => \A bag \in BatchBags :
            CallGetSummary(bag)
            => LET l == bag.file_paths.l
                   b == resp'.body
               IN  /\ Len(b.summaries) = Len(StrItems(l))
                   /\ \A i \in 1 .. Len(b.summaries) :
                        \E good \in BOOLEAN :
                          b.summaries[i] = get_file_info(fs, config, StrItems(l)[i].p, good).body
                   /\ Len(b.errors) = Len(OtherItems(l))
                   /\ \A i \in 1 .. Len(b.errors) :
                        b.errors[i].file_path = OtherItems(l)[i]]_vars

\* C17 witness: a batch of five with a path given twice and two items that
\* raise returned the missing path first and last and the workbook between
C17_Witness ==
    /\ resp.op = "get_excel_summary_batch"
    /\ resp.body.total_files = 5
    /\ Len(resp.body.summaries) = 3
    /\ ~resp.body.summaries[1].success
    /\ resp.body.summaries[2].success
    /\ ~resp.body.summaries[3].success
    /\ resp.body.errors[1].file_path = IntItem

\* the directories inside the work root that callers scan
ScanRoots == {WorkP, SubDir}

\* the entry at l is a regular file, a link to one included, whose name ends
\* in an allowed extension in either case; written out for this layout
MatchingFile(f, l) ==
    /\ \/ f[l].kind = "file"
       \/ f[l].kind = "link" /\ f[f[l].target].kind = "file"
    /\ Last(l) \in {"A.XLSX", "lnk.xlsx", "s.xlsx", "c.xlsx"}

\* the entries directly in d, and those in the directories below d
ChildrenOf(f, d) == {l \in Locs : Len(l) = Len(d) + 1 /\ Front(l) = d /\ f[l].kind # "none"}

DeeperThan(f, d) == {l \in Locs : Len(l) > Len(d) + 1 /\ IsPrefix(d, l) /\ f[l].kind # "none"}

\* the paths a scan without cap returns
ScanPaths(f, c, d, recursive, order) ==
    LET b == scan_directory(f, f, c, d, recursive, 0, order).body
    IN  {b.files[i].file_path : i \in 1 .. Len(b.files)}

\* C18: without cap, a flat scan returns only matching files directly in
\* the scanned directory, and a recursive scan returns the files of the
\* flat scan plus every matching file of every directory below.
C18_RecursiveVsFlat ==
    \A d \in ScanRoots :
      \A flat \in listing(glob(fs, scan_base(fs, d), "*", FALSE)) :
        /\ \A p \in ScanPaths(fs, config, d, FALSE, flat) : p \in ChildrenOf(fs, d)
        /\ \A deep \in listing(glob(fs, scan_base(fs, d), "*", TRUE)) :
             ScanPaths(fs, config, d, TRUE, deep)
               = ScanPaths(fs, config, d, FALSE, flat)
                   \cup {l \in DeeperThan(fs, d) : MatchingFile(fs, l)}

\* C18 witness: a scan of the work root returned the workbook directly in
\* it and the one in its subdirectory
C18_Witness ==
    /\ resp.op = "scan_directory"
    /\ resp.path = WorkP
    /\ resp.body.success
    /\ {resp.body.files[i].file_path : i \in 1 .. Len(resp.body.files)} = {AFile, LnkFile}

\* C19: with a cap N >= 1 a successful scan returns at most N files, and
\* the result says truncated = true whenever more than N matching files
\* were there to be found.
C19_ResultCap ==
    [][(pc = "idle" /\ fs' = fs /\ resp'.op = "list_excel_files" /\ resp'.body.success
        /\ get_max_files_per_search(config) >= 1)
       => LET N == get_max_files_per_search(config)
              there == {l \in ChildrenOf(fs, WorkP)
                            \cup (IF get_recursive_search(config)
                                  THEN DeeperThan(fs, WorkP) ELSE {}) :
                          MatchingFile(fs, l)}
          IN  /\ Len(resp'.body.files) <= N
              /\ Cardinality(there) > N
                 => /\ "truncated" \in DOMAIN resp'.body
                    /\ resp'.body.truncated]_vars

\* C20: without cap, files holds exactly the visited regular files whose
\* extension is in the allow-list in either case, and scanned_files counts
\* every entry visited, files that do not match and directories included.
C20_FilterAndCount ==
    \A d \in ScanRoots, recursive \in BOOLEAN :
      \A order \in listing(glob(fs, scan_base(fs, d), "*", recursive)) :
        LET b == scan_directory(fs, fs, config, d, recursive, 0, order).body
            seen == ChildrenOf(fs, d) \cup (IF recursive THEN DeeperThan(fs, d) ELSE {})
        IN  /\ b.success
            /\ {b.files[i].file_path : i \in 1 .. Len(b.files)}
                 = {l \in seen : MatchingFile(fs, l)}
            /\ b.total_files = Cardinality({l \in seen : MatchingFile(fs, l)})
            /\ b.scanned_files = Cardinality(seen)
            /\ \A i \in 1 .. Len(b.files) : b.files[i].extension \in Extensions

\* C20 witness: a flat scan of the work root visited the workbook A.XLSX,
\* the text file and the subdirectory and returned the workbook alone
C20_Witness ==
    /\ resp.op = "scan_directory"
    /\ resp.path = WorkP
    /\ resp.body.success
    /\ resp.body.scanned_files = 3
    /\ Len(resp.body.files) = 1
    /\ resp.body.files[1].file_name = "A.XLSX"
    /\ fs[NTxt].kind = "file"

\* the smaller of two numbers
Min(a, b) == IF a <= b THEN a ELSE b

\* C21: for a worksheet with A data rows and an integer max_rows = N >= 0,
\* a successful read returns exactly min(N, A) rows, row_count is the
\* number of rows returned, and column_count is the number of headers.
C21_RowLimit ==
    [][\A p \in DataPool, df \in Sheets, max_rows \in MaxRowsArgs :
         (ReadWorksheet(p, df, max_rows) /\ resp'.body.success)
         => /\ max_rows.t = "int"
               => Len(resp'.body.rows) = Min(max_rows.n, Len(df.values))
            /\ resp'.body.row_count = Len(resp'.body.rows)
            /\ resp'.body.column_count = Len(resp'.body.headers)]_vars

\* the entries a call listed, as they were found
Visited(lg) == {lg[i].path : i \in {j \in 1 .. Len(lg) : lg[j].ev = "visit"}}

C23_ConfigImmutable ==
    [][/\ config' = config
       /\ fs' = fs
          => \A p \in {AFile, LnkFile, Work2P, <<"work", "..", "out", "s.xlsx">>} :
               is_path_within_work_directory(fs', config', p)
                 = is_path_within_work_directory(fs, config, p)]_vars

\* C23 witness: a server whose work directory is configured as
\* /out/../work summarised /work/A.XLSX after /out/s.xlsx was removed
C23_Witness ==
    /\ get_work_directory(config) = <<"out", "..", "work">>
    /\ resp.op = "get_excel_summary"
    /\ resp.path = AFile
    /\ resp.body.success
    /\ fs[SFile].kind = "none"

\* C24: when the file is gone at the moment get_file_info opens or stats
\* it after a successful validation, or at the moment read_excel_data,
\* search_in_excel or get_worksheet_summary open it, the call ends with a
\* failure envelope carrying an error: nothing is raised and no success
\* is reported.
C24_DeletedBeforeUse ==
    [][(/\ pc \in {"summary_parse", "summary_stat", "parse"}
        /\ fs' = fs
        /\ NodeAt(fs, CanonicalForm(cur.path)).kind = "none")
       => /\ pc' = "idle"
          /\ resp'.kind = "envelope"
          /\ ~resp'.body.success
          /\ "error" \in DOMAIN resp'.body]_vars

\* C24 witness: a summary whose validation reached the size check ended
\* with the file not found when it was opened or stat-ed
C24_Witness ==
    /\ resp.kind = "envelope"
    /\ resp.op = "get_excel_summary"
    /\ resp.path = AFile
    /\ HasEvent(log, "stat")
    /\ ~resp.body.success
    /\ "exc" \in DOMAIN resp.body.error
    /\ resp.body.error.exc = "FileNotFoundError"

\* C25: a successful search echoes its request: search_term is the term
\* the caller passed and case_sensitive the flag passed, for every term
\* and both values of the flag, and total_matches is the length of
\* matches.
C25_SearchEcho ==
    [][\A p \in DataPool, df \in Sheets, search_term \in SearchTerms, case_sensitive \in BOOLEAN :
         (SearchWorksheet(p, df, search_term, case_sensitive) /\ resp'.body.success)
         => /\ resp'.body.search_term = search_term
            /\ resp'.body.case_sensitive = case_sensitive
            /\ resp'.body.total_matches = Len(resp'.body.matches)]_vars

\* the error the documented order of directory checks gives for d, written
\* out from the node found at the canonical form of d; no code for none
ExpectedDirError(f, c, d) ==
    IF NodeAt(f, CanonicalForm(d)).kind = "none"
    THEN [code |-> "DIRECTORY_NOT_FOUND",
          error |-> [msg |-> "Directory does not exist", path |-> d]]
    ELSE IF NodeAt(f, CanonicalForm(d)).kind # "dir"
    THEN [code |-> "NOT_A_DIRECTORY",
          error |-> [msg |-> "Path is not a directory", path |-> d]]
    ELSE IF ~InsideRoot(c, d)
    THEN [code |-> "ACCESS_DENIED",
          error |-> [msg |-> "Directory access denied", path |-> d,
                     work |-> c.work_directory]]
    ELSE [code |-> "", error |-> [msg |-> ""]]

\* C26: directory validation stops at the first failing check in the
\* order DIRECTORY_NOT_FOUND, NOT_A_DIRECTORY, ACCESS_DENIED (with the work
\* directory in the message), and scan_directory reports that code and
\* that message.
C26_DirectoryValidationOrder ==
    [][(pc = "idle" /\ fs' = fs /\ resp'.op = "scan_directory")
       => LET want == ExpectedDirError(fs, config, resp'.path)
              validation == validate_directory_path(fs, config, resp'.path).result
          IN  IF want.code = ""
              THEN validation.valid /\ resp'.body.success
              ELSE /\ ~validation.valid
                   /\ validation.error_code = want.code
                   /\ validation.error = want.error
                   /\ HasCode(resp'.body, want.code)
                   /\ resp'.body.error = want.error]_vars

\* C26 witness: a scan of a file outside the work directory was refused
\* as not a directory, the earlier of its two failing checks
C26_Witness ==
    /\ resp.op = "scan_directory"
    /\ resp.path = SFile
    /\ HasCode(resp.body, "NOT_A_DIRECTORY")

\* the path lies below the directory that may not be searched, so that
\* os.stat fails on it; written out for this layout
Unreadable(p) == Len(p) > 1 /\ p[1] = "locked"

\* nothing is found at the canonical form of p
Missing(f, p) == NodeAt(f, CanonicalForm(p)).kind = "none"

ScanOps == {"scan_directory", "list_excel_files"}

\* C28: a matching file whose metadata cannot be collected during a scan
\* is left out of the result: a successful scan has no entry in files for
\* it and does not count it in total_files.
C28_UnreadableSkipped ==
    (resp.kind = "envelope" /\ resp.op \in ScanOps /\ resp.body.success)
    => LET b == resp.body
           collected == {i \in 1 .. Len(b.files) : "error" \notin DOMAIN b.files[i]}
       IN  /\ collected = 1 .. Len(b.files)
           /\ b.total_files = Cardinality(collected)

\* C29: whatever becomes of the items of a non-empty file_paths list, all
\* of them failing included, the envelope get_multiple_excel_summaries
\* builds says success = true and holds one entry for each item, in
\* summaries or in errors; the response of a batch call is that envelope.
C29_BatchAlwaysSucceeds ==
    /\ \A bag \in BatchBags :
         LET l == bag.file_paths.l
         IN  \A goods \in [opening(fs, config, l) -> BOOLEAN] :
               LET b == batch_envelope(l, get_multiple_excel_summaries(fs, config, l, goods, 1))
               IN  /\ b.success
                   /\ b.total_files = Len(l)
                   /\ Len(b.summaries) + Len(b.errors) = Len(l)
                   /\ \A i \in 1 .. Len(b.summaries) : b.summaries[i].success \in BOOLEAN
    /\ resp.op = "get_excel_summary_batch"
       => /\ resp.kind = "envelope"
          /\ resp.body.success
          /\ Len(resp.body.summaries) + Len(resp.body.errors) = resp.body.total_files

\* C29 witness: a batch of two files of which none gave a summary, with
\* success = true
C29_Witness ==
    /\ resp.kind = "envelope"
    /\ resp.op = "get_excel_summary_batch"
    /\ resp.body.success
    /\ resp.body.total_files = 2
    /\ Len(resp.body.summaries) = 2
    /\ \A i \in 1 .. 2 : ~resp.body.summaries[i].success

====
